---- MODULE Spec2Model ----
(***************************************************************************)
(* State-machine model of the TTS worker pool                              *)
(* (src/internal/server/worker.go) and of the audio player it drives       *)
(* (src/internal/audio/player.go).                                         *)
(*                                                                         *)
(* Job records live in a heap (the sequence `heap`); a *Job pointer is an  *)
(* index into it.  Every goroutine has a program counter: the workers      *)
(* (wpc), the callers of Submit (spc), the caller of GetStatus (gpc) and   *)
(* the caller of Stop (stpc).  One action is one atomic step of one        *)
(* goroutine.                                                              *)
(***************************************************************************)
EXTENDS Integers, Sequences, FiniteSets, TLC

----------------------------------------------------------------------------
(* Bounds of the model *)

MaxWorkers == 2
MaxQueue == 2
MaxJobs == 2
NumCallers == 2
MaxStatusCalls == 1
MaxHistJobs == 103
BigQueue == 150
MaxSpeakJobs == 3
MaxEvictJobs == 101

(* Program constants *)

HistoryLimit == 100
RecentLimit == 10

Workers == 1..MaxWorkers
Callers == 1..NumCallers
Voices == {"alloy"}
Texts == {"Test"}

QueueFullMsg == "queue is full"
QueueFullErr == "job queue is full"
SynthErrMsg == "API request failed"
TempFileErrMsg == "failed to create temp file"
PlaybackErrMsg == "audio playback failed"

(* handleSpeak: the length limit, the voices and the result texts *)

MaxTextLen == 4096
DefaultVoice == "alloy"
ValidVoices == {"alloy", "echo", "fable", "onyx", "nova", "shimmer"}

TextRequiredMsg == "text parameter is required"
TextTooLongMsg == "text exceeds maximum length of 4096 characters"
InvalidVoiceMsg == "invalid voice"
QueueFailedMsg == "failed to queue TTS job"
QueuedMsg == "TTS job queued successfully"

(* An argument of a tool call: absent, of a type other than string, or  *)
(* a string.  A text is kept as its number of characters (runes) and    *)
(* the number of bytes each takes in UTF-8; a voice as its string.      *)
Absent == [kind |-> "absent", runes |-> 0, width |-> 1, v |-> ""]
NonString == [kind |-> "number", runes |-> 0, width |-> 1, v |-> ""]
TextArg(n, k) == [kind |-> "string", runes |-> n, width |-> k, v |-> ""]
VoiceArg(str) == [kind |-> "string", runes |-> 0, width |-> 1, v |-> str]

(* the arguments tried: texts around both ends of the limit, in one-    *)
(* byte and in two-byte characters; voices valid, unknown and empty     *)
SpeakTexts ==
    {Absent, NonString, TextArg(0, 1), TextArg(1, 1),
     TextArg(MaxTextLen, 1), TextArg(MaxTextLen + 1, 1),
     TextArg(MaxTextLen \div 2, 2), TextArg(MaxTextLen, 2)}

SpeakVoices ==
    {Absent, NonString, VoiceArg(""), VoiceArg("alloy"), VoiceArg("shimmer"),
     VoiceArg("invalid-voice")}

(* len(text): the length of a Go string is its number of bytes *)
ByteLen(text) == text.runes * text.width

(* tts.IsValidVoice *)
IsValidVoice(str) == str \in ValidVoices

VARIABLES
    workerCount,   \* WorkerPool.workerCount
    queueSize,     \* WorkerPool.queueSize = cap(jobs)
    heap,          \* the Job records ever allocated; a *Job is an index
    jobs,          \* contents of the buffered channel WorkerPool.jobs
    jobsClosed,    \* close(wp.jobs) has happened
    shutdown,      \* close(wp.shutdown) has happened
    jobHistory,    \* WorkerPool.jobHistory ([]*Job)
    historyMu,     \* WorkerPool.historyMu: [w |-> writer or 0, r |-> #readers]
    processed,     \* WorkerPool.processed
    failed,        \* WorkerPool.failed
    wg,            \* WorkerPool.wg counter
    started,       \* Start has been called
    mu,            \* Player.mu: 0 when free, else the worker holding it
    isPlaying,     \* Player.isPlaying
    now,           \* last value the clock returned
    wpc, wjob, werr,   \* workers: position, job in hand, error in hand
    spc, sjob,     \* Submit callers: position, job built
    results,       \* what Submit returned for each job: its error, "" if none yet
    gpc, snap, status, \* GetStatus caller: position, locals, last return
    statusCalls,   \* number of GetStatus calls made
    stpc,          \* Stop caller: position
    procCount,     \* history: number of processJob invocations per job
    appended,      \* history: every pointer appended to the ledger, in order
    attempts,      \* history: every pointer offered to the queue, in order
    speak          \* handleSpeak callers: position, arguments, result

vars == <<workerCount, queueSize, heap, jobs, jobsClosed, shutdown,
          jobHistory, historyMu, processed, failed, wg, started, mu,
          isPlaying, now, wpc, wjob, werr, spc, sjob, results, gpc, snap,
          status, statusCalls, stpc, procCount, appended, attempts, speak>>

poolVars == <<workerCount, queueSize>>
workerVars == <<wpc, wjob, werr>>
submitVars == <<spc, sjob, results>>
statusVars == <<gpc, snap, status, statusCalls>>
playerVars == <<mu, isPlaying>>
speakVars == <<speak>>

Min(a, b) == IF a < b THEN a ELSE b

----------------------------------------------------------------------------
(* NewWorkerPool, NewPlayer *)

(* a handleSpeak caller that has made no call yet *)
NoCall == [pc |-> "idle", text |-> Absent, voice |-> Absent, result |-> ""]

NoSnap == [Valid |-> FALSE, WorkerCount |-> 0, QueueSize |-> 0,
           QueuePending |-> 0, TotalProcessed |-> 0, TotalFailed |-> 0,
           IsPlaying |-> FALSE, RecentJobs |-> << >>]

(* mutant: the constructor launches the worker loops itself *)
NewWorkerPool_startsWorkers(w, q) ==
    /\ workerCount = w
    /\ queueSize = q
    /\ heap = << >>
    /\ jobs = << >>
    /\ jobsClosed = FALSE
    /\ shutdown = FALSE
    /\ jobHistory = << >>
    /\ historyMu = [w |-> 0, r |-> 0]
    /\ processed = 0
    /\ failed = 0
    /\ wg = 0
    /\ started = FALSE
    /\ mu = 0
    /\ isPlaying = FALSE
    /\ now = 0
    /\ wpc = [i \in Workers |-> IF i <= w THEN "select" ELSE "unstarted"]
    /\ wjob = [i \in Workers |-> 0]
    /\ werr = [i \in Workers |-> ""]
    /\ spc = [c \in Callers |-> "idle"]
    /\ sjob = [c \in Callers |-> 0]
    /\ results = << >>
    /\ gpc = "idle"
    /\ snap = NoSnap
    /\ status = NoSnap
    /\ statusCalls = 0
    /\ stpc = "idle"
    /\ procCount = << >>
    /\ appended = << >>
    /\ attempts = << >>
    /\ speak = [c \in Callers |-> NoCall]

NewWorkerPool(w, q) ==
    /\ workerCount = w
    /\ queueSize = q
    /\ heap = << >>
    /\ jobs = << >>
    /\ jobsClosed = FALSE
    /\ shutdown = FALSE
    /\ jobHistory = << >>
    /\ historyMu = [w |-> 0, r |-> 0]
    /\ processed = 0
    /\ failed = 0
    /\ wg = 0
    /\ started = FALSE
    /\ mu = 0
    /\ isPlaying = FALSE
    /\ now = 0
    /\ wpc = [i \in Workers |-> "unstarted"]
    /\ wjob = [i \in Workers |-> 0]
    /\ werr = [i \in Workers |-> ""]
    /\ spc = [c \in Callers |-> "idle"]
    /\ sjob = [c \in Callers |-> 0]
    /\ results = << >>
    /\ gpc = "idle"
    /\ snap = NoSnap
    /\ status = NoSnap
    /\ statusCalls = 0
    /\ stpc = "idle"
    /\ procCount = << >>
    /\ appended = << >>
    /\ attempts = << >>
    /\ speak = [c \in Callers |-> NoCall]

Init == \E w \in 1..MaxWorkers, q \in 1..MaxQueue : NewWorkerPool(w, q)

----------------------------------------------------------------------------
(* The clock: time.Now() never goes backwards.  `ticks` is the set of     *)
(* amounts by which it may have advanced since the previous read: {1}    *)
(* when every read sees a new value, {0, 1} when two reads may see the   *)
(* same value.                                                           *)

ClockReads(t, ticks) == {t + d : d \in ticks}

(* fmt.Sprintf("job-%d", time.Now().UnixNano()) *)
JobID(t) == <<"job-", t>>

(* The Job literal of Submit *)
NewJob(t1, t2, text, voice) ==
    [ID |-> JobID(t1), Text |-> text, Voice |-> voice, CreatedAt |-> t2,
     Status |-> "pending", Error |-> ""]

----------------------------------------------------------------------------
(* The buffered channel wp.jobs *)

(* mutant: the send also succeeds on a full buffer *)
ChanHasRoom_offByOne == Len(jobs) <= queueSize

(* mutant: the send fails one slot early *)
ChanHasRoom_oneShort == Len(jobs) + 1 < queueSize

ChanHasRoom == Len(jobs) < queueSize

(* mutant: the send puts the job at the head of the buffer *)
Enqueue_atFront(q, p) == <<p>> \o q

Enqueue(q, p) == Append(q, p)

(* mutant: the receive leaves the job in the buffer *)
Dequeue_keepsHead(q) == q

Dequeue(q) == Tail(q)

(* wp.historyMu *)

CanLock == historyMu.w = 0 /\ historyMu.r = 0

CanRLock == historyMu.w = 0

(* append + "keep last 100" of Submit *)
(* mutant: at the cap the new record is dropped instead of the oldest *)
AppendHistory_keepsOldest(h, p) ==
    IF Len(h) >= HistoryLimit THEN h ELSE Append(h, p)

AppendHistory(h, p) ==
    LET a == Append(h, p)
    IN  IF Len(a) > HistoryLimit THEN SubSeq(a, 2, Len(a)) ELSE a

----------------------------------------------------------------------------
(* Submit(text, voice), one caller c *)

SubmitCreate(c, text, voice, ticks) ==
    /\ spc[c] = "idle"
    /\ \E t1 \in ClockReads(now, ticks) : \E t2 \in ClockReads(t1, ticks) :
         /\ heap' = Append(heap, NewJob(t1, t2, text, voice))
         /\ now' = t2
    /\ procCount' = Append(procCount, 0)
    /\ sjob' = [sjob EXCEPT ![c] = Len(heap) + 1]
    /\ results' = Append(results, "")
    /\ spc' = [spc EXCEPT ![c] = "lock"]
    /\ UNCHANGED <<poolVars, jobs, jobsClosed, shutdown, jobHistory,
                   historyMu, processed, failed, wg, started, playerVars,
                   workerVars, statusVars, stpc, appended, attempts>>

SubmitLock(c) ==
    /\ spc[c] = "lock"
    /\ CanLock
    /\ historyMu' = [historyMu EXCEPT !.w = c]
    /\ spc' = [spc EXCEPT ![c] = "append"]
    /\ UNCHANGED <<poolVars, speakVars, heap, jobs, jobsClosed, shutdown, jobHistory,
                   processed, failed, wg, started, playerVars, now,
                   workerVars, sjob, results, statusVars, stpc, procCount,
                   appended, attempts>>

(* mutant: a record dropped from jobHistory is dropped from the queue too *)
SubmitAppend_evictsFromQueue(c) ==
    /\ spc[c] = "append"
    /\ jobHistory' = AppendHistory(jobHistory, sjob[c])
    /\ jobs' = SelectSeq(jobs, LAMBDA p :
                   p \in {jobHistory'[i] : i \in 1..Len(jobHistory')})
    /\ appended' = Append(appended, sjob[c])
    /\ historyMu' = [historyMu EXCEPT !.w = 0]
    /\ spc' = [spc EXCEPT ![c] = "send"]
    /\ UNCHANGED <<poolVars, speakVars, heap, jobsClosed, shutdown,
                   processed, failed, wg, started, playerVars, now,
                   workerVars, sjob, results, statusVars, stpc, procCount,
                   attempts>>

(* mutant: Submit goes to the select without appending to jobHistory *)
SubmitAppend_skips(c) ==
    /\ spc[c] = "append"
    /\ historyMu' = [historyMu EXCEPT !.w = 0]
    /\ spc' = [spc EXCEPT ![c] = "send"]
    /\ UNCHANGED <<poolVars, speakVars, heap, jobs, jobsClosed, shutdown, jobHistory,
                   processed, failed, wg, started, playerVars, now,
                   workerVars, sjob, results, statusVars, stpc, procCount,
                   appended, attempts>>

SubmitAppend(c) ==
    /\ spc[c] = "append"
    /\ jobHistory' = AppendHistory(jobHistory, sjob[c])
    /\ appended' = Append(appended, sjob[c])
    /\ historyMu' = [historyMu EXCEPT !.w = 0]
    /\ spc' = [spc EXCEPT ![c] = "send"]
    /\ UNCHANGED <<poolVars, speakVars, heap, jobs, jobsClosed, shutdown, processed,
                   failed, wg, started, playerVars, now, workerVars, sjob,
                   results, statusVars, stpc, procCount, attempts>>

(* select { case wp.jobs <- job: ... default: ... }: a send on a closed  *)
(* channel panics, also inside a select with a default branch.           *)
SubmitSend(c) ==
    /\ spc[c] = "send"
    /\ attempts' = Append(attempts, sjob[c])
    /\ IF jobsClosed
         THEN /\ spc' = [spc EXCEPT ![c] = "panicked"]
              /\ UNCHANGED <<jobs, results>>
         ELSE IF ChanHasRoom
         THEN /\ jobs' = Enqueue(jobs, sjob[c])
              /\ results' = [results EXCEPT ![sjob[c]] = "nil"]
              /\ spc' = [spc EXCEPT ![c] = "idle"]
         ELSE /\ spc' = [spc EXCEPT ![c] = "rejectStatus"]
              /\ UNCHANGED <<jobs, results>>
    /\ UNCHANGED <<poolVars, speakVars, heap, jobsClosed, shutdown, jobHistory,
                   historyMu, processed, failed, wg, started, playerVars,
                   now, workerVars, sjob, statusVars, stpc, procCount,
                   appended>>

(* mutant: the queue-full branch leaves the status as it was *)
RejectedStatus_pending == "pending"

RejectedStatus == "failed"

SubmitRejectStatus(c) ==
    /\ spc[c] = "rejectStatus"
    /\ heap' = [heap EXCEPT ![sjob[c]].Status = RejectedStatus]
    /\ spc' = [spc EXCEPT ![c] = "rejectError"]
    /\ UNCHANGED <<poolVars, speakVars, jobs, jobsClosed, shutdown, jobHistory,
                   historyMu, processed, failed, wg, started, playerVars,
                   now, workerVars, sjob, results, statusVars, stpc, procCount,
                   appended, attempts>>

SubmitRejectError(c) ==
    /\ spc[c] = "rejectError"
    /\ heap' = [heap EXCEPT ![sjob[c]].Error = QueueFullMsg]
    /\ results' = [results EXCEPT ![sjob[c]] = QueueFullErr]
    /\ spc' = [spc EXCEPT ![c] = "idle"]
    /\ UNCHANGED <<poolVars, speakVars, jobs, jobsClosed, shutdown, jobHistory,
                   historyMu, processed, failed, wg, started, playerVars,
                   now, workerVars, sjob, statusVars, stpc, procCount,
                   appended, attempts>>

(* handleSpeak(request), one caller c *)

(* text, ok := Arguments["text"].(string); !ok || text == "" *)
TextMissing(text) == text.kind # "string" \/ ByteLen(text) = 0

(* len(text) > 4096 *)
TextTooLong(text) == ByteLen(text) > MaxTextLen

(* voice := "alloy"; if v, ok := Arguments["voice"].(string); ok && v != "" *)
VoiceOf(voice) ==
    IF voice.kind = "string" /\ voice.v # "" THEN voice.v ELSE DefaultVoice

(* the error result of the validation, "" when the request passes *)
SpeakError(text, voice) ==
    IF TextMissing(text) THEN TextRequiredMsg
    ELSE IF TextTooLong(text) THEN TextTooLongMsg
    ELSE IF ~IsValidVoice(VoiceOf(voice)) THEN InvalidVoiceMsg
    ELSE ""

(* the handler up to its return with an error result, or up to the      *)
(* creation of the record in Submit                                     *)
HandleSpeakCall(c, text, voice) ==
    /\ speak[c].pc = "idle"
    /\ spc[c] = "idle"
    /\ IF SpeakError(text, voice) # ""
         THEN /\ speak' = [speak EXCEPT ![c] =
                             [pc |-> "idle", text |-> text, voice |-> voice,
                              result |-> SpeakError(text, voice)]]
              /\ UNCHANGED <<poolVars, heap, jobs, jobsClosed, shutdown,
                             jobHistory, historyMu, processed, failed, wg,
                             started, playerVars, now, workerVars,
                             submitVars, statusVars, stpc, procCount,
                             appended, attempts>>
         ELSE /\ speak' = [speak EXCEPT ![c] =
                             [pc |-> "inSubmit", text |-> text,
                              voice |-> voice, result |-> ""]]
              /\ SubmitCreate(c, text, VoiceOf(voice), {1})

(* Submit has returned: the handler builds its result from err *)
HandleSpeakReturn(c) ==
    /\ speak[c].pc = "inSubmit"
    /\ spc[c] = "idle"
    /\ speak' = [speak EXCEPT ![c].pc = "idle",
                              ![c].result = IF results[sjob[c]] = "nil"
                                              THEN QueuedMsg
                                              ELSE QueueFailedMsg]
    /\ UNCHANGED <<poolVars, heap, jobs, jobsClosed, shutdown, jobHistory,
                   historyMu, processed, failed, wg, started, playerVars,
                   now, workerVars, submitVars, statusVars, stpc, procCount,
                   appended, attempts>>

SubmitStep(c) ==
    \/ SubmitLock(c)
    \/ SubmitAppend(c)
    \/ SubmitSend(c)
    \/ SubmitRejectStatus(c)
    \/ SubmitRejectError(c)

----------------------------------------------------------------------------
(* Start: one goroutine per worker, wg.Add(1) for each.  Start is called *)
(* once, by server.New, before the pool is handed to anyone.             *)

(* mutant: Start launches a loop for every worker slot there is *)
Start_launchesAll ==
    /\ ~started
    /\ started' = TRUE
    /\ wg' = wg + MaxWorkers
    /\ wpc' = [i \in Workers |-> "select"]
    /\ UNCHANGED <<poolVars, speakVars, heap, jobs, jobsClosed, shutdown,
                   jobHistory, historyMu, processed, failed, playerVars,
                   now, wjob, werr, submitVars, statusVars, stpc, procCount,
                   appended, attempts>>

Start ==
    /\ ~started
    /\ started' = TRUE
    /\ wg' = wg + workerCount
    /\ wpc' = [i \in Workers |->
                 IF i <= workerCount THEN "select" ELSE wpc[i]]
    /\ UNCHANGED <<poolVars, speakVars, heap, jobs, jobsClosed, shutdown, jobHistory,
                   historyMu, processed, failed, playerVars, now, wjob,
                   werr, submitVars, statusVars, stpc, procCount, appended,
                   attempts>>

(* Stop: close(shutdown); close(jobs); wg.Wait().  Its only caller,      *)
(* Server.Shutdown, runs on a pool that server.New has started.          *)

StopSignal ==
    /\ stpc = "idle"
    /\ started
    /\ shutdown' = TRUE
    /\ stpc' = "closeJobs"
    /\ UNCHANGED <<poolVars, speakVars, heap, jobs, jobsClosed, jobHistory, historyMu,
                   processed, failed, wg, started, playerVars, now,
                   workerVars, submitVars, statusVars, procCount, appended,
                   attempts>>

StopCloseJobs ==
    /\ stpc = "closeJobs"
    /\ jobsClosed' = TRUE
    /\ stpc' = "wait"
    /\ UNCHANGED <<poolVars, speakVars, heap, jobs, shutdown, jobHistory, historyMu,
                   processed, failed, wg, started, playerVars, now,
                   workerVars, submitVars, statusVars, procCount, appended,
                   attempts>>

(* mutant: Stop returns without wg.Wait() *)
StopWait_noWait ==
    /\ stpc = "wait"
    /\ stpc' = "returned"
    /\ UNCHANGED <<poolVars, speakVars, heap, jobs, jobsClosed, shutdown, jobHistory,
                   historyMu, processed, failed, wg, started, playerVars,
                   now, workerVars, submitVars, statusVars, procCount,
                   appended, attempts>>

StopWait ==
    /\ stpc = "wait"
    /\ wg = 0
    /\ stpc' = "returned"
    /\ UNCHANGED <<poolVars, speakVars, heap, jobs, jobsClosed, shutdown, jobHistory,
                   historyMu, processed, failed, wg, started, playerVars,
                   now, workerVars, submitVars, statusVars, procCount,
                   appended, attempts>>

----------------------------------------------------------------------------
(* worker(id): the select loop.  When several cases are ready Go picks   *)
(* one of them at random.                                                *)

(* case <-wp.shutdown: return   and   case job, ok := <-wp.jobs: !ok   *)
(* mutant: the worker returns without wg.Done() *)
WorkerExit_noDone(w) ==
    /\ wpc[w] = "select"
    /\ \/ shutdown
       \/ jobsClosed /\ jobs = << >>
    /\ wpc' = [wpc EXCEPT ![w] = "exited"]
    /\ UNCHANGED <<poolVars, speakVars, heap, jobs, jobsClosed, shutdown, jobHistory,
                   historyMu, processed, failed, wg, started, playerVars,
                   now, wjob, werr, submitVars, statusVars, stpc, procCount,
                   appended, attempts>>

WorkerExit(w) ==
    /\ wpc[w] = "select"
    /\ \/ shutdown
       \/ jobsClosed /\ jobs = << >>
    /\ wpc' = [wpc EXCEPT ![w] = "exited"]
    /\ wg' = wg - 1
    /\ UNCHANGED <<poolVars, speakVars, heap, jobs, jobsClosed, shutdown, jobHistory,
                   historyMu, processed, failed, started, playerVars, now,
                   wjob, werr, submitVars, statusVars, stpc, procCount,
                   appended, attempts>>

(* case job, ok := <-wp.jobs with ok: call processJob(job) *)
WorkerReceive(w) ==
    /\ wpc[w] = "select"
    /\ jobs # << >>
    /\ wjob' = [wjob EXCEPT ![w] = Head(jobs)]
    /\ jobs' = Dequeue(jobs)
    /\ procCount' = [procCount EXCEPT ![Head(jobs)] = @ + 1]
    /\ wpc' = [wpc EXCEPT ![w] = "setProcessing"]
    /\ UNCHANGED <<poolVars, speakVars, heap, jobsClosed, shutdown, jobHistory,
                   historyMu, processed, failed, wg, started, playerVars,
                   now, werr, submitVars, statusVars, stpc, appended,
                   attempts>>

(* processJob: job.Status = "processing" *)
ProcessSetProcessing(w) ==
    /\ wpc[w] = "setProcessing"
    /\ heap' = [heap EXCEPT ![wjob[w]].Status = "processing"]
    /\ wpc' = [wpc EXCEPT ![w] = "synthesize"]
    /\ UNCHANGED <<poolVars, speakVars, jobs, jobsClosed, shutdown, jobHistory,
                   historyMu, processed, failed, wg, started, playerVars,
                   now, wjob, werr, submitVars, statusVars, stpc, procCount,
                   appended, attempts>>

(* mutant: processJob goes on to Play after a failed Synthesize *)
ProcessSynthesize_playsAnyway(w) ==
    /\ wpc[w] = "synthesize"
    /\ \/ /\ wpc' = [wpc EXCEPT ![w] = "playLock"]
          /\ UNCHANGED werr
       \/ /\ wpc' = [wpc EXCEPT ![w] = "playLock"]
          /\ werr' = [werr EXCEPT ![w] = SynthErrMsg]
    /\ UNCHANGED <<poolVars, speakVars, heap, jobs, jobsClosed, shutdown, jobHistory,
                   historyMu, processed, failed, wg, started, playerVars,
                   now, wjob, submitVars, statusVars, stpc, procCount,
                   appended, attempts>>

(* processJob: wp.ttsClient.Synthesize returns audio or an error *)
ProcessSynthesize(w) ==
    /\ wpc[w] = "synthesize"
    /\ \/ /\ wpc' = [wpc EXCEPT ![w] = "playLock"]
          /\ UNCHANGED werr
       \/ /\ wpc' = [wpc EXCEPT ![w] = "failStatus"]
          /\ werr' = [werr EXCEPT ![w] = SynthErrMsg]
    /\ UNCHANGED <<poolVars, speakVars, heap, jobs, jobsClosed, shutdown, jobHistory,
                   historyMu, processed, failed, wg, started, playerVars,
                   now, wjob, submitVars, statusVars, stpc, procCount,
                   appended, attempts>>

----------------------------------------------------------------------------
(* Player.Play, called by worker w *)

(* mutant: Play does not wait for the lock *)
MuFree_always == TRUE

MuFree == mu = 0

(* p.mu.Lock(); p.isPlaying = true *)
PlayLock(w) ==
    /\ wpc[w] = "playLock"
    /\ MuFree
    /\ mu' = w
    /\ isPlaying' = TRUE
    /\ wpc' = [wpc EXCEPT ![w] = "playPrepare"]
    /\ UNCHANGED <<poolVars, speakVars, heap, jobs, jobsClosed, shutdown, jobHistory,
                   historyMu, processed, failed, wg, started, now, wjob,
                   werr, submitVars, statusVars, stpc, procCount, appended,
                   attempts>>

(* mutant: Play unlocks without the deferred p.isPlaying = false *)
PlayReturn_keepsFlag(w) == isPlaying' = isPlaying /\ mu' = 0

(* mutant: Play returns without the deferred p.mu.Unlock() *)
PlayReturn_keepsLock(w) == isPlaying' = FALSE /\ mu' = mu

(* the deferred isPlaying = false and p.mu.Unlock() *)
PlayReturn(w) ==
    /\ isPlaying' = FALSE
    /\ mu' = 0

(* temp file, write, choice of the platform player: on failure Play     *)
(* returns before the player is invoked                                 *)
PlayPrepare(w) ==
    /\ wpc[w] = "playPrepare"
    /\ \/ /\ wpc' = [wpc EXCEPT ![w] = "playRun"]
          /\ UNCHANGED <<werr, playerVars>>
       \/ /\ wpc' = [wpc EXCEPT ![w] = "failStatus"]
          /\ werr' = [werr EXCEPT ![w] = TempFileErrMsg]
          /\ PlayReturn(w)
    /\ UNCHANGED <<poolVars, speakVars, heap, jobs, jobsClosed, shutdown, jobHistory,
                   historyMu, processed, failed, wg, started, now, wjob,
                   submitVars, statusVars, stpc, procCount, appended,
                   attempts>>

(* cmd.Run() returns *)
PlayRun(w) ==
    /\ wpc[w] = "playRun"
    /\ \/ /\ wpc' = [wpc EXCEPT ![w] = "doneStatus"]
          /\ UNCHANGED werr
       \/ /\ wpc' = [wpc EXCEPT ![w] = "failStatus"]
          /\ werr' = [werr EXCEPT ![w] = PlaybackErrMsg]
    /\ PlayReturn(w)
    /\ UNCHANGED <<poolVars, speakVars, heap, jobs, jobsClosed, shutdown, jobHistory,
                   historyMu, processed, failed, wg, started, now, wjob,
                   submitVars, statusVars, stpc, procCount, appended,
                   attempts>>

(* Player.IsPlaying: p.mu.Lock(); return p.isPlaying *)
IsPlaying == isPlaying

----------------------------------------------------------------------------
(* processJob: the failure branches and the success tail *)

ProcessFailStatus(w) ==
    /\ wpc[w] = "failStatus"
    /\ heap' = [heap EXCEPT ![wjob[w]].Status = "failed"]
    /\ wpc' = [wpc EXCEPT ![w] = "failError"]
    /\ UNCHANGED <<poolVars, speakVars, jobs, jobsClosed, shutdown, jobHistory,
                   historyMu, processed, failed, wg, started, playerVars,
                   now, wjob, werr, submitVars, statusVars, stpc, procCount,
                   appended, attempts>>

ProcessFailError(w) ==
    /\ wpc[w] = "failError"
    /\ heap' = [heap EXCEPT ![wjob[w]].Error = werr[w]]
    /\ wpc' = [wpc EXCEPT ![w] = "failCount"]
    /\ UNCHANGED <<poolVars, speakVars, jobs, jobsClosed, shutdown, jobHistory,
                   historyMu, processed, failed, wg, started, playerVars,
                   now, wjob, werr, submitVars, statusVars, stpc, procCount,
                   appended, attempts>>

(* mutant: the failure branch returns without wp.failed.Add(1) *)
ProcessFailCount_noAdd(w) ==
    /\ wpc[w] = "failCount"
    /\ wpc' = [wpc EXCEPT ![w] = "select"]
    /\ wjob' = [wjob EXCEPT ![w] = 0]
    /\ werr' = [werr EXCEPT ![w] = ""]
    /\ UNCHANGED <<poolVars, speakVars, heap, jobs, jobsClosed, shutdown, jobHistory,
                   historyMu, processed, failed, wg, started, playerVars,
                   now, submitVars, statusVars, stpc, procCount, appended,
                   attempts>>

(* mutant: the worker loop ends after a failed job *)
ProcessFailCount_exits(w) ==
    /\ wpc[w] = "failCount"
    /\ failed' = failed + 1
    /\ wpc' = [wpc EXCEPT ![w] = "exited"]
    /\ wg' = wg - 1
    /\ wjob' = [wjob EXCEPT ![w] = 0]
    /\ werr' = [werr EXCEPT ![w] = ""]
    /\ UNCHANGED <<poolVars, speakVars, heap, jobs, jobsClosed, shutdown, jobHistory,
                   historyMu, processed, started, playerVars, now,
                   submitVars, statusVars, stpc, procCount, appended,
                   attempts>>

ProcessFailCount(w) ==
    /\ wpc[w] = "failCount"
    /\ failed' = failed + 1
    /\ wpc' = [wpc EXCEPT ![w] = "select"]
    /\ wjob' = [wjob EXCEPT ![w] = 0]
    /\ werr' = [werr EXCEPT ![w] = ""]
    /\ UNCHANGED <<poolVars, speakVars, heap, jobs, jobsClosed, shutdown, jobHistory,
                   historyMu, processed, wg, started, playerVars, now,
                   submitVars, statusVars, stpc, procCount, appended,
                   attempts>>

(* mutant: the success tail replaces the record by a fresh one *)
ProcessDoneStatus_resetsRecord(w) ==
    /\ wpc[w] = "doneStatus"
    /\ heap' = [heap EXCEPT ![wjob[w]] =
                  [NewJob(now, now, "", DefaultVoice)
                     EXCEPT !.Status = "completed"]]
    /\ wpc' = [wpc EXCEPT ![w] = "doneCount"]
    /\ UNCHANGED <<poolVars, speakVars, jobs, jobsClosed, shutdown,
                   jobHistory, historyMu, processed, failed, wg, started,
                   playerVars, now, wjob, werr, submitVars, statusVars, stpc,
                   procCount, appended, attempts>>

ProcessDoneStatus(w) ==
    /\ wpc[w] = "doneStatus"
    /\ heap' = [heap EXCEPT ![wjob[w]].Status = "completed"]
    /\ wpc' = [wpc EXCEPT ![w] = "doneCount"]
    /\ UNCHANGED <<poolVars, speakVars, jobs, jobsClosed, shutdown, jobHistory,
                   historyMu, processed, failed, wg, started, playerVars,
                   now, wjob, werr, submitVars, statusVars, stpc, procCount,
                   appended, attempts>>

(* mutant: the success tail adds to wp.failed as well *)
ProcessDoneCount_addsFailed(w) ==
    /\ wpc[w] = "doneCount"
    /\ processed' = processed + 1
    /\ failed' = failed + 1
    /\ wpc' = [wpc EXCEPT ![w] = "select"]
    /\ wjob' = [wjob EXCEPT ![w] = 0]
    /\ UNCHANGED <<poolVars, speakVars, heap, jobs, jobsClosed, shutdown, jobHistory,
                   historyMu, wg, started, playerVars, now, werr,
                   submitVars, statusVars, stpc, procCount, appended,
                   attempts>>

ProcessDoneCount(w) ==
    /\ wpc[w] = "doneCount"
    /\ processed' = processed + 1
    /\ wpc' = [wpc EXCEPT ![w] = "select"]
    /\ wjob' = [wjob EXCEPT ![w] = 0]
    /\ UNCHANGED <<poolVars, speakVars, heap, jobs, jobsClosed, shutdown, jobHistory,
                   historyMu, failed, wg, started, playerVars, now, werr,
                   submitVars, statusVars, stpc, procCount, appended,
                   attempts>>

WorkerStep(w) ==
    \/ WorkerExit(w)
    \/ WorkerReceive(w)
    \/ ProcessSetProcessing(w)
    \/ ProcessSynthesize(w)
    \/ PlayLock(w)
    \/ PlayPrepare(w)
    \/ PlayRun(w)
    \/ ProcessFailStatus(w)
    \/ ProcessFailError(w)
    \/ ProcessFailCount(w)
    \/ ProcessDoneStatus(w)
    \/ ProcessDoneCount(w)

----------------------------------------------------------------------------
(* GetStatus *)

(* an element of RecentJobs: the *Job taken from jobHistory *)
SnapshotEntry(p) == [kind |-> "ptr", p |-> p, job |-> <<>>]

(* what a reader of a RecentJobs element sees *)
Deref(e) == IF e.kind = "ptr" THEN heap[e.p] ELSE e.job

(* start := len(jobHistory) - 10, clamped at 0; jobHistory[start:] *)
(* mutant: jobHistory[:10] instead of jobHistory[start:] *)
RecentOf_firstTen(h) == SubSeq(h, 1, Min(Len(h), RecentLimit))

RecentOf(h) ==
    LET start == IF Len(h) - RecentLimit < 0 THEN 0 ELSE Len(h) - RecentLimit
    IN  SubSeq(h, start + 1, Len(h))

GetStatusRLock ==
    /\ gpc = "idle"
    /\ CanRLock
    /\ historyMu' = [historyMu EXCEPT !.r = @ + 1]
    /\ snap' = NoSnap
    /\ status' = NoSnap
    /\ statusCalls' = statusCalls + 1
    /\ gpc' = "copy"
    /\ UNCHANGED <<poolVars, speakVars, heap, jobs, jobsClosed, shutdown, jobHistory,
                   processed, failed, wg, started, playerVars, now,
                   workerVars, submitVars, stpc, procCount,
                   appended, attempts>>

GetStatusCopy ==
    /\ gpc = "copy"
    /\ snap' = [snap EXCEPT
                  !.RecentJobs = [i \in 1..Len(RecentOf(jobHistory)) |->
                                    SnapshotEntry(RecentOf(jobHistory)[i])],
                  !.WorkerCount = workerCount,
                  !.QueueSize = queueSize]
    /\ historyMu' = [historyMu EXCEPT !.r = @ - 1]
    /\ gpc' = "queuePending"
    /\ UNCHANGED <<poolVars, speakVars, heap, jobs, jobsClosed, shutdown, jobHistory,
                   processed, failed, wg, started, playerVars, now,
                   workerVars, submitVars, status, statusCalls, stpc, procCount,
                   appended, attempts>>

GetStatusQueuePending ==
    /\ gpc = "queuePending"
    /\ snap' = [snap EXCEPT !.QueuePending = Len(jobs)]
    /\ gpc' = "totalProcessed"
    /\ UNCHANGED <<poolVars, speakVars, heap, jobs, jobsClosed, shutdown, jobHistory,
                   historyMu, processed, failed, wg, started, playerVars,
                   now, workerVars, submitVars, status, statusCalls, stpc, procCount,
                   appended, attempts>>

GetStatusTotalProcessed ==
    /\ gpc = "totalProcessed"
    /\ snap' = [snap EXCEPT !.TotalProcessed = processed]
    /\ gpc' = "totalFailed"
    /\ UNCHANGED <<poolVars, speakVars, heap, jobs, jobsClosed, shutdown, jobHistory,
                   historyMu, processed, failed, wg, started, playerVars,
                   now, workerVars, submitVars, status, statusCalls, stpc, procCount,
                   appended, attempts>>

GetStatusTotalFailed ==
    /\ gpc = "totalFailed"
    /\ snap' = [snap EXCEPT !.TotalFailed = failed]
    /\ gpc' = "isPlaying"
    /\ UNCHANGED <<poolVars, speakVars, heap, jobs, jobsClosed, shutdown, jobHistory,
                   historyMu, processed, failed, wg, started, playerVars,
                   now, workerVars, submitVars, status, statusCalls, stpc, procCount,
                   appended, attempts>>

(* wp.audioPlayer.IsPlaying() takes p.mu, then the PoolStatus is returned *)
GetStatusIsPlaying ==
    /\ gpc = "isPlaying"
    /\ MuFree
    /\ status' = [snap EXCEPT !.IsPlaying = IsPlaying, !.Valid = TRUE]
    /\ snap' = NoSnap
    /\ gpc' = "idle"
    /\ UNCHANGED <<poolVars, speakVars, heap, jobs, jobsClosed, shutdown, jobHistory,
                   historyMu, processed, failed, wg, started, playerVars,
                   now, workerVars, submitVars, statusCalls, stpc, procCount, appended,
                   attempts>>

GetStatusStep ==
    \/ GetStatusCopy
    \/ GetStatusQueuePending
    \/ GetStatusTotalProcessed
    \/ GetStatusTotalFailed
    \/ GetStatusIsPlaying

----------------------------------------------------------------------------
(* Spec: the pool under concurrent Submit callers, its workers and Stop *)

Next ==
    \/ \E c \in Callers, text \in Texts, voice \in Voices :
         /\ Len(heap) < MaxJobs
         /\ SubmitCreate(c, text, voice, {1})
         /\ UNCHANGED speakVars
    \/ \E c \in Callers : SubmitStep(c)
    \/ Start
    \/ StopSignal
    \/ StopCloseJobs
    \/ StopWait
    \/ \E w \in Workers : WorkerStep(w)

Spec == Init /\ [][Next]_vars

(* SpecLive: Spec under the scheduling the Go runtime gives: every       *)
(* goroutine that can take a step eventually takes one, and every       *)
(* started synthesis or playback call returns.                          *)

Fairness ==
    /\ \A w \in Workers : WF_vars(WorkerStep(w))
    /\ WF_vars(StopCloseJobs)
    /\ WF_vars(StopWait)

SpecLive == Init /\ [][Next]_vars /\ Fairness

(* SpecStatus: one Submit caller, the workers, Stop and a GetStatus caller *)

NextStatus ==
    \/ \E text \in Texts, voice \in Voices :
         /\ Len(heap) < MaxJobs
         /\ SubmitCreate(1, text, voice, {1})
         /\ UNCHANGED speakVars
    \/ SubmitStep(1)
    \/ Start
    \/ StopSignal
    \/ StopCloseJobs
    \/ StopWait
    \/ \E w \in Workers : WorkerStep(w)
    \/ statusCalls < MaxStatusCalls /\ GetStatusRLock
    \/ GetStatusStep

SpecStatus == Init /\ [][NextStatus]_vars

(* SpecHist: a pool that is never started, as in                        *)
(* TestWorkerPool_JobHistoryLimit and _GetStatus_RecentJobsLimit: one   *)
(* caller submits more than HistoryLimit jobs and calls GetStatus       *)
(* between any two of them.                                             *)

InitHist == \E q \in {MaxQueue, BigQueue} : NewWorkerPool(1, q)

NextHist ==
    \/ gpc = "idle" /\ Len(heap) < MaxHistJobs
                    /\ SubmitCreate(1, "Test", "alloy", {1})
                    /\ UNCHANGED speakVars
    \/ SubmitStep(1)
    \/ spc[1] = "idle" /\ statusCalls < MaxStatusCalls /\ GetStatusRLock
    \/ GetStatusStep

SpecHist == InitHist /\ [][NextHist]_vars

(* SpecClock: concurrent Submit callers on a pool that was not started, *)
(* with a clock of finite resolution: two consecutive time.Now() reads  *)
(* may return the same value.                                           *)

NextClock ==
    \/ \E c \in Callers, text \in Texts, voice \in Voices :
         /\ Len(heap) < MaxJobs
         /\ SubmitCreate(c, text, voice, {0, 1})
         /\ UNCHANGED speakVars
    \/ \E c \in Callers : SubmitStep(c)

SpecClock == Init /\ [][NextClock]_vars

(* SpecSpeak: the server's speak tool in front of the pool, one tool    *)
(* caller.  The handler reads nothing of the pool but Submit's return,  *)
(* and the queue sizes of Init give both outcomes of Submit's select    *)
(* without the workers taking jobs out, so their steps are left out.    *)

NextSpeak ==
    \/ \E text \in SpeakTexts, voice \in SpeakVoices :
         /\ SpeakError(text, voice) = "" => Len(heap) < MaxSpeakJobs
         /\ HandleSpeakCall(1, text, voice)
    \/ SubmitStep(1)
    \/ HandleSpeakReturn(1)

SpecSpeak == Init /\ [][NextSpeak]_vars

(* SpecEvict: one caller fills the ledger of a small pool past its cap  *)
(* while the first jobs are still queued; the pool is started when the  *)
(* ledger is full, so that queued jobs are evicted from the ledger      *)
(* before, while and after the worker processes them.                   *)

InitEvict == NewWorkerPool(1, MaxQueue)

NextEvict ==
    \/ /\ Len(heap) < MaxEvictJobs
       /\ SubmitCreate(1, "Test", "alloy", {1})
       /\ UNCHANGED speakVars
    \/ SubmitStep(1)
    \/ Len(heap) >= HistoryLimit /\ Start
    \/ StopSignal
    \/ StopCloseJobs
    \/ StopWait
    \/ \E w \in Workers : WorkerStep(w)

SpecEvict == InitEvict /\ [][NextEvict]_vars

----------------------------------------------------------------------------
(* Properties *)

Jobs == 1..Len(heap)

Range(q) == {q[i] : i \in 1..Len(q)}

(* worker w is inside Play, holding p.mu *)
InPlay(w) == wpc[w] \in {"playPrepare", "playRun"}

(* C1: at most one worker is inside Play (and so inside the platform   *)
(* player) at any instant; a worker that calls Play meanwhile cannot   *)
(* enter before the first has returned.                                *)
C1_OnePlaybackAtATime ==
    /\ Cardinality({w \in Workers : InPlay(w)}) <= 1
    /\ \A w1, w2 \in Workers :
         InPlay(w1) /\ wpc[w2] = "playLock" => ~ENABLED PlayLock(w2)

C1_Witness ==
    \E w1, w2 \in Workers : wpc[w1] = "playRun" /\ wpc[w2] = "playLock"

(* C2: on a pool whose workers were never started, the first queueSize  *)
(* sends are accepted (record pending, nil error) and every later one   *)
(* is rejected (record failed, "queue is full", non-nil error) without  *)
(* touching the queue.                                                  *)
C2_QueueFullRejects ==
    ~started =>
      /\ jobs = SubSeq(attempts, 1, Min(Len(attempts), queueSize))
      /\ \A i \in 1..Len(attempts) :
           LET p == attempts[i]
           IN  IF i <= queueSize
                 THEN /\ results[p] = "nil"
                      /\ heap[p].Status = "pending"
                      /\ heap[p].Error = ""
                 ELSE results[p] # "" =>
                        /\ results[p] = QueueFullErr
                        /\ heap[p].Status = "failed"
                        /\ heap[p].Error = QueueFullMsg

C2_Witness ==
    /\ ~started
    /\ Len(jobs) = queueSize
    /\ \E p \in Jobs : results[p] = QueueFullErr /\ heap[p].Status = "failed"

(* a Submit call of caller c is under way *)
InSubmit(c) == spc[c] \notin {"idle", "panicked"}

(* caller c has a step to take, or waits for historyMu while its holder *)
(* has a step to take that needs nothing but the processor              *)
SubmitCanProceed(c) ==
    \/ ENABLED SubmitStep(c)
    \/ /\ spc[c] = "lock"
       /\ \/ historyMu.w # 0 /\ ENABLED SubmitAppend(historyMu.w)
          \/ historyMu.r > 0 /\ ENABLED GetStatusCopy

(* C3: Submit never waits for queue space, a worker, synthesis or       *)
(* playback: whatever the state, a Submit call runs to completion and   *)
(* returns success or the queue-full error.                             *)
C3_SubmitAlwaysReturns ==
    \A c \in Callers :
      /\ spc[c] # "panicked"
      /\ InSubmit(c) => SubmitCanProceed(c)

(* C4 as claimed: once Stop has returned, every accepted job has been   *)
(* processed exactly once.                                              *)
C4_ExactlyOnceEvenWithStop ==
    stpc = "returned" =>
      \A p \in Jobs : results[p] = "nil" => procCount[p] = 1

(* C4 as amended: processJob is invoked on an accepted job never twice  *)
(* and by one worker only: exactly once on every job a worker has taken *)
(* from the queue, not at all on a job that is still queued (and that   *)
(* stays queued when the workers exit on Stop) or that was rejected.    *)
C4_AtMostOnce ==
    /\ \A p \in Jobs :
         procCount[p] =
           IF results[p] = "nil" /\ p \notin Range(jobs) THEN 1 ELSE 0
    /\ \A p \in Jobs : Cardinality({w \in Workers : wjob[w] = p}) <= 1
    /\ \A i, j \in 1..Len(jobs) : i # j => jobs[i] # jobs[j]

C4_Witness ==
    /\ stpc = "returned"
    /\ \E p \in Jobs : procCount[p] = 1 /\ heap[p].Status \in {"completed", "failed"}
    /\ \E p \in Range(jobs) : procCount[p] = 0 /\ results[p] = "nil"

AllowedTransitions ==
    { <<"pending", "processing">>, <<"pending", "failed">>,
      <<"processing", "completed">>, <<"processing", "failed">> }

(* C5: a record's status changes only along pending->processing,        *)
(* pending->failed (in Submit's queue-full branch), processing->        *)
(* completed and processing->failed; completed and failed are final.    *)
C5_StatusTransitions ==
    [][ \A p \in Jobs :
          heap'[p].Status # heap[p].Status =>
            /\ <<heap[p].Status, heap'[p].Status>> \in AllowedTransitions
            /\ <<heap[p].Status, heap'[p].Status>> = <<"pending", "failed">> =>
                 \E c \in Callers : spc[c] = "rejectStatus" /\ sjob[c] = p
      ]_vars

C5_Witness ==
    /\ \E p \in Jobs : heap[p].Status = "completed"
    /\ \E p \in Jobs : heap[p].Status = "failed" /\ heap[p].Error = QueueFullMsg

(* C6: the queue never holds more than queueSize jobs *)
C6_QueueBounded == Len(jobs) >= 0 /\ Len(jobs) <= queueSize

C6_Witness ==
    /\ Len(jobs) = queueSize
    /\ started
    /\ \E c \in Callers : spc[c] = "rejectStatus"
    /\ \E w \in Workers : wpc[w] = "select"

(* C7: the ledger is the last min(n, 100) appended records, in append   *)
(* order, n being the number of records appended so far: never more     *)
(* than 100, and evicted oldest first.                                  *)
C7_LedgerKeepsLast100 ==
    LET n == Len(appended)
        k == Min(n, HistoryLimit)
    IN  /\ Len(jobHistory) = k
        /\ Len(jobHistory) <= HistoryLimit
        /\ \A i \in 1..k : jobHistory[i] = appended[n - k + i]
        /\ (\A c \in Callers : spc[c] = "idle") => n = Len(heap)

C7_Witness ==
    /\ Len(appended) = HistoryLimit + 2
    /\ jobHistory[1] = 3
    /\ \E p \in Jobs : results[p] = QueueFullErr

(* C8: GetStatus returns the last min(10, len) ledger entries, in       *)
(* ledger order, and never more than 10.                                *)
C8_RecentJobsAreLastTen ==
    [][ gpc = "copy" /\ gpc' # "copy" =>
          LET r == snap'.RecentJobs
              n == Len(jobHistory)
              k == Min(RecentLimit, n)
          IN  /\ Len(r) = k
              /\ Len(r) <= RecentLimit
              /\ \A i \in 1..k : r[i].kind = "ptr" /\ r[i].p = jobHistory[n - k + i]
      ]_vars

C8_Witness ==
    /\ status.Valid
    /\ Len(status.RecentJobs) = RecentLimit
    /\ status.RecentJobs[1].p = HistoryLimit - 7
    /\ Len(jobHistory) = HistoryLimit
    /\ Len(appended) = HistoryLimit + 2

(* C9: an entry of a returned snapshot is an independent copy: whatever *)
(* is later written to the record, reading the entry gives what it gave *)
(* when the snapshot was returned.                                      *)
C9_SnapshotIsACopy ==
    [][ status.Valid /\ status' = status =>
          \A i \in 1..Len(status.RecentJobs) :
            Deref(status.RecentJobs[i])' = Deref(status.RecentJobs[i])
      ]_vars

(* C10: N Submit calls, made concurrently on a pool that was not        *)
(* started and has room for N, all succeed; the queue then holds the N  *)
(* jobs, each once, and so does the ledger.                             *)
C10_ConcurrentSubmitsAllLand ==
    ( /\ ~started
      /\ \A c \in Callers : spc[c] = "idle"
      /\ Len(heap) <= queueSize
      /\ Len(heap) <= HistoryLimit )
    => /\ \A p \in Jobs : results[p] = "nil"
       /\ Len(jobs) = Len(heap)
       /\ Range(jobs) = Jobs
       /\ Len(jobHistory) = Len(heap)
       /\ Range(jobHistory) = Jobs

(* two calls overlapped: the job created second reached the ledger and  *)
(* the queue first                                                      *)
C10_Witness ==
    /\ ~started
    /\ \A c \in Callers : spc[c] = "idle"
    /\ Len(heap) = 2
    /\ jobHistory = <<2, 1>>
    /\ jobs = <<1, 2>>

(* worker w has a job in hand: it is inside processJob *)
InProcessJob(w) == wpc[w] \notin {"unstarted", "select", "exited"}

(* C11: once Stop has been called on a started pool it returns, whether *)
(* the workers are idle or in the middle of a job.                      *)
C11_StopReturns == (stpc = "closeJobs") ~> (stpc = "returned")

C11_Witness ==
    /\ stpc = "returned"
    /\ workerCount = 2
    /\ \E p \in Jobs : heap[p].Status = "completed"
    /\ jobs # << >>

(* C12: Stop closes shutdown first, then the queue, and returns only    *)
(* when every worker loop has exited.                                   *)
C12_StopOrder ==
    /\ jobsClosed => shutdown
    /\ stpc = "closeJobs" => shutdown /\ ~jobsClosed
    /\ stpc \in {"wait", "returned"} => shutdown /\ jobsClosed
    /\ stpc = "returned" =>
         /\ wg = 0
         /\ \A w \in Workers : w <= workerCount => wpc[w] = "exited"

C12_Witness ==
    /\ stpc = "returned"
    /\ workerCount = 2
    /\ \A w \in Workers : wpc[w] = "exited"

(* C13: Stop does not return while a worker has a job in hand; when it  *)
(* has returned, no job is in status processing and every job that was  *)
(* taken from the queue has been counted.                               *)
C13_InFlightJobFinishes ==
    /\ (stpc = "wait" /\ \E w \in Workers : InProcessJob(w))
         => ~ENABLED StopWait
    /\ stpc = "returned" =>
         /\ \A p \in Jobs : heap[p].Status # "processing"
         /\ \A p \in Jobs :
              procCount[p] = 1 => heap[p].Status \in {"completed", "failed"}
         /\ processed + failed = Cardinality({p \in Jobs : procCount[p] = 1})

C13_Witness ==
    /\ stpc = "wait"
    /\ \E w \in Workers :
         wpc[w] = "playRun" /\ heap[wjob[w]].Status = "processing"

(* C14: IsPlaying, and with it GetStatus, never waits for the play      *)
(* lock: a GetStatus call that has reached its IsPlaying read can       *)
(* complete at once, also while a Play call is in progress.             *)
C14_IsPlayingNeverWaits == gpc = "isPlaying" => ENABLED GetStatusIsPlaying

(* C15: the IsPlaying read of a GetStatus call reports true when it is  *)
(* evaluated while a playback is in progress and false otherwise.       *)
C15_ReportsPlayback ==
    gpc = "isPlaying" =>
        ENABLED (/\ GetStatusIsPlaying
                 /\ status'.IsPlaying = (\E w \in Workers : InPlay(w)))

(* what the code gives instead: no snapshot ever shows a playback *)
SnapshotNeverPlaying == status.Valid => ~status.IsPlaying

(* C16: the playing flag is true exactly while a Play call is in        *)
(* progress; every return of Play, on success and on each failure path, *)
(* leaves it false.                                                     *)
C16_FlagClearedAfterPlay ==
    /\ isPlaying = (\E w \in Workers : InPlay(w))
    /\ mu = 0 => ~isPlaying
    /\ (\A w \in Workers : wpc[w] \in {"unstarted", "select", "exited"})
         => IsPlaying = FALSE

C16_Witness ==
    /\ ~isPlaying
    /\ mu = 0
    /\ \E p, q \in Jobs :
         /\ heap[p].Status = "completed"
         /\ heap[q].Error \in {TempFileErrMsg, PlaybackErrMsg}
    /\ \A w \in Workers : ~InProcessJob(w)

(* worker w is in a failure branch of processJob *)
InFailBranch(w) == wpc[w] \in {"failStatus", "failError", "failCount"}

(* C17: a synthesis or playback failure never stops the worker loop.    *)
(* The failure branch changes only the worker's own job and ends with   *)
(* the worker back at its select, still running, where it can take the  *)
(* next queued job.                                                     *)
C17_FailureKeepsWorkerRunning ==
    /\ [](\A w \in Workers :
            (wpc[w] = "select" /\ jobs # << >>) => ENABLED WorkerReceive(w))
    /\ [][\A w \in Workers :
            (InFailBranch(w) /\ wpc'[w] # wpc[w]) =>
               /\ wpc'[w] = CASE wpc[w] = "failStatus" -> "failError"
                              [] wpc[w] = "failError"  -> "failCount"
                              [] wpc[w] = "failCount"  -> "select"
               /\ wg' = wg
               /\ \A p \in Jobs : p # wjob[w] => heap'[p] = heap[p]]_vars
    /\ \A w \in Workers : InFailBranch(w) ~> (wpc[w] = "select")

C17_Witness ==
    /\ workerCount = 1
    /\ \E p, q \in Jobs :
         /\ p # q
         /\ heap[p].Status = "failed"
         /\ heap[p].Error \in {SynthErrMsg, PlaybackErrMsg}
         /\ wjob[1] = q
         /\ wpc[1] = "synthesize"

(* job p is in nobody's hands: no worker holds it and no Submit call is *)
(* still writing its rejection                                          *)
Settled(p) ==
    /\ \A w \in Workers : wjob[w] # p
    /\ \A c \in Callers : ~(InSubmit(c) /\ sjob[c] = p)

(* C18: every job that has ended with status failed is counted in       *)
(* failedCount, whichever of the three causes applied.                  *)
C18_AllFailuresCounted ==
    failed = Cardinality({p \in Jobs : Settled(p) /\ heap[p].Status = "failed"})

(* C18 amended: failedCount counts exactly the dequeued jobs that ended *)
(* failed, each synthesis or playback failure adding one; a queue-full  *)
(* rejection leaves failedCount unchanged.                              *)
C18_WorkerFailuresCounted ==
    /\ [](failed = Cardinality({p \in Jobs :
                     /\ Settled(p)
                     /\ procCount[p] = 1
                     /\ heap[p].Status = "failed"}))
    /\ [](\A p \in Jobs :
            heap[p].Error = QueueFullMsg => procCount[p] = 0)
    /\ [][\A c \in Callers :
            (spc[c] \in {"rejectStatus", "rejectError"} /\ spc'[c] # spc[c])
               => failed' = failed]_vars
    /\ [][\A w \in Workers :
            (wpc[w] = "failCount" /\ wpc'[w] # wpc[w])
               => failed' = failed + 1]_vars

C18_Witness ==
    /\ failed = 1
    /\ \E p, q \in Jobs :
         /\ Settled(p) /\ Settled(q)
         /\ heap[p].Status = "failed" /\ heap[p].Error = QueueFullMsg
         /\ heap[q].Status = "failed"
         /\ heap[q].Error \in {SynthErrMsg, PlaybackErrMsg}

(* the error texts Play can return *)
PlayErrors == {TempFileErrMsg, PlaybackErrMsg}

(* C19: a synthesis failure makes the job failed with the gateway's     *)
(* error text, adds one to failedCount and nothing to processedCount,   *)
(* never reaches Play and is not retried; a playback failure after a    *)
(* successful synthesis makes the job failed with Play's error text     *)
(* and adds one to failedCount alone.                                   *)
C19_FailureAccounting ==
    /\ [](\A w \in Workers :
            /\ werr[w] # "" => InFailBranch(w)
            /\ InFailBranch(w) => werr[w] \in {SynthErrMsg} \cup PlayErrors
            /\ (wpc[w] = "playLock" \/ InPlay(w)) =>
                 /\ werr[w] = ""
                 /\ heap[wjob[w]].Status = "processing"
                 /\ heap[wjob[w]].Error = "")
    /\ [](\A p \in Jobs :
            /\ procCount[p] <= 1
            /\ heap[p].Error \in {SynthErrMsg} \cup PlayErrors =>
                 /\ heap[p].Status = "failed"
                 /\ procCount[p] = 1
                 /\ p \notin Range(jobs)
            /\ (Settled(p) /\ procCount[p] = 1 /\ heap[p].Status = "failed")
                 => heap[p].Error \in {SynthErrMsg} \cup PlayErrors)
    /\ [][\A w \in Workers :
            /\ (wpc[w] = "synthesize" /\ wpc'[w] = "failStatus") =>
                 /\ werr'[w] = SynthErrMsg
                 /\ UNCHANGED <<playerVars, processed, failed>>
            /\ (InPlay(w) /\ wpc'[w] = "failStatus") =>
                 /\ werr'[w] \in PlayErrors
                 /\ UNCHANGED <<processed, failed>>
            /\ (wpc[w] = "failError" /\ wpc'[w] # wpc[w]) =>
                 /\ heap[wjob[w]].Status = "failed"
                 /\ heap'[wjob[w]].Error = werr[w]
                 /\ UNCHANGED <<processed, failed>>
            /\ (wpc[w] = "failCount" /\ wpc'[w] # wpc[w]) =>
                 /\ failed' = failed + 1
                 /\ processed' = processed
                 /\ heap'[wjob[w]] = heap[wjob[w]]
                 /\ heap[wjob[w]].Error = werr[w]]_vars

C19_Witness ==
    /\ processed = 0
    /\ failed = 2
    /\ \E p, q \in Jobs :
         /\ Settled(p) /\ Settled(q)
         /\ heap[p].Status = "failed" /\ heap[p].Error = SynthErrMsg
         /\ heap[q].Status = "failed" /\ heap[q].Error = PlaybackErrMsg

(* worker w is in the success tail of processJob *)
InDoneTail(w) == wpc[w] \in {"doneStatus", "doneCount"}

(* C20: when synthesis and playback both succeed the job ends completed *)
(* with an empty error message, processedCount grows by exactly one,    *)
(* failedCount is unchanged, and the worker has left Play, so that the  *)
(* playing flag is false once no other playback runs.                   *)
C20_SuccessPath ==
    /\ [](\A p \in Jobs :
            heap[p].Status = "completed" =>
               /\ heap[p].Error = ""
               /\ procCount[p] = 1
               /\ p \notin Range(jobs))
    /\ [](processed = Cardinality({p \in Jobs :
                        Settled(p) /\ heap[p].Status = "completed"}))
    /\ [](\A w \in Workers :
            InDoneTail(w) => mu # w /\ werr[w] = "" /\ ~InPlay(w))
    /\ []((\A w \in Workers : ~InPlay(w)) => IsPlaying = FALSE)
    /\ [][\A w \in Workers :
            /\ (wpc[w] = "playRun" /\ wpc'[w] = "doneStatus") =>
                 /\ isPlaying' = FALSE
                 /\ UNCHANGED <<processed, failed, heap>>
            /\ (wpc[w] = "doneStatus" /\ wpc'[w] # wpc[w]) =>
                 /\ heap'[wjob[w]].Status = "completed"
                 /\ heap'[wjob[w]].Error = ""
                 /\ UNCHANGED <<processed, failed>>
            /\ (wpc[w] = "doneCount" /\ wpc'[w] # wpc[w]) =>
                 /\ processed' = processed + 1
                 /\ failed' = failed
                 /\ heap' = heap
                 /\ wpc'[w] = "select"]_vars

C20_Witness ==
    /\ workerCount = 1
    /\ Len(heap) = 1
    /\ processed = 1
    /\ failed = 0
    /\ heap[1].Status = "completed"
    /\ heap[1].Error = ""
    /\ Settled(1)
    /\ IsPlaying = FALSE

(* Submit has returned the queue-full error for job p *)
Rejected(p) == results[p] = QueueFullErr

(* C21: Submit appends the record to the ledger before it offers it to  *)
(* the queue; a rejected record is returned with status failed and is   *)
(* in the ledger, and a GetStatus call made after the rejection shows   *)
(* it among the recent jobs.                                            *)
C21_RejectedJobInLedger ==
    /\ [](\A c \in Callers :
            spc[c] \in {"send", "rejectStatus", "rejectError"} =>
               /\ jobHistory # << >>
               /\ jobHistory[Len(jobHistory)] = sjob[c])
    /\ [](\A i \in 1..Len(attempts) : attempts[i] \in Range(appended))
    /\ [](\A p \in Jobs :
            Rejected(p) =>
               /\ heap[p].Status = "failed"
               /\ heap[p].Error = QueueFullMsg
               /\ p \notin Range(jobs)
               /\ p > Len(heap) - HistoryLimit => p \in Range(jobHistory))
    /\ [][(gpc = "copy" /\ gpc' # gpc) =>
            \A p \in Jobs :
               (Rejected(p) /\ p > Len(heap) - RecentLimit) =>
                  \E i \in 1..Len(snap'.RecentJobs) :
                     snap'.RecentJobs[i].p = p]_vars

C21_Witness ==
    /\ status.Valid
    /\ Len(heap) > HistoryLimit
    /\ Rejected(Len(heap))
    /\ status.RecentJobs[Len(status.RecentJobs)].p = Len(heap)
    /\ Deref(status.RecentJobs[Len(status.RecentJobs)]).Status = "failed"

(* some goroutine is at a plain write of record p's Status or Error:    *)
(* the Job struct has no lock, so nothing is held around the write      *)
WritesRecord(p) ==
    \/ \E w \in Workers :
         /\ wjob[w] = p
         /\ wpc[w] \in {"setProcessing", "failStatus", "failError",
                        "doneStatus"}
    \/ \E c \in Callers :
         sjob[c] = p /\ spc[c] \in {"rejectStatus", "rejectError"}

(* the caller of GetStatus holds record p through a returned snapshot   *)
(* and reads its fields (handleStatus serialises them)                  *)
ReadsRecord(p) ==
    /\ status.Valid
    /\ \E i \in 1..Len(status.RecentJobs) :
         status.RecentJobs[i].kind = "ptr" /\ status.RecentJobs[i].p = p

(* C22: no read of a record obtained through GetStatus overlaps an      *)
(* unlocked write of that record's status or error message, whether     *)
(* the write is Submit's or processJob's.                               *)
C22_NoUnlockedWriteDuringRead ==
    \A p \in Jobs : p \in Range(appended) => ~(WritesRecord(p) /\ ReadsRecord(p))

(* C23: any two distinct records created by Submit have different ids,  *)
(* also when the calls are concurrent or read the same clock value.     *)
C23_UniqueIDs ==
    \A p, q \in Jobs : p # q => heap[p].ID # heap[q].ID

(* C24: a record with a non-empty error message has status failed;      *)
(* pending, processing and completed records have an empty one.         *)
C24_ErrorOnlyWhenFailed ==
    \A p \in Jobs :
       /\ heap[p].Error # "" => heap[p].Status = "failed"
       /\ heap[p].Status \in {"pending", "processing", "completed"}
            => heap[p].Error = ""

C24_Witness ==
    \E p, q \in Jobs :
       /\ heap[p].Status = "failed"
       /\ heap[p].Error \in {SynthErrMsg, PlaybackErrMsg, QueueFullMsg}
       /\ heap[q].Status = "processing"
       /\ heap[q].Error = ""

(* the submissions Submit has accepted so far *)
Accepted == {p \in Jobs : results[p] = "nil"}

(* C25: a constructed pool runs no worker until Start: before Start no  *)
(* job leaves the queue, both counters are 0 and QueuePending is the    *)
(* number of accepted submissions; GetStatus reports the workerCount     *)
(* and queueSize given to the constructor, which never change.          *)
C25_NoWorkersBeforeStart ==
    /\ [](~started =>
            /\ \A w \in Workers : wpc[w] = "unstarted"
            /\ wg = 0
            /\ processed = 0 /\ failed = 0
            /\ \A p \in Jobs : procCount[p] = 0
            /\ Len(jobs) = Cardinality(Accepted)
            /\ \A p \in Accepted : heap[p].Status = "pending")
    /\ []((status.Valid /\ ~started) =>
            /\ status.TotalProcessed = 0
            /\ status.TotalFailed = 0
            /\ status.IsPlaying = FALSE)
    /\ [](status.Valid =>
            /\ status.WorkerCount = workerCount
            /\ status.QueueSize = queueSize)
    /\ [][/\ workerCount' = workerCount
          /\ queueSize' = queueSize
          /\ (~started /\ gpc = "queuePending" /\ gpc' # gpc) =>
               snap'.QueuePending = Cardinality(Accepted)]_vars

C25_Witness ==
    /\ ~started
    /\ workerCount = 1
    /\ queueSize = 2
    /\ status.Valid
    /\ status.WorkerCount = 1
    /\ status.QueueSize = 2
    /\ status.QueuePending = 2
    /\ Cardinality(Accepted) = 2

(* the voice a request names: none when the argument is absent, not a   *)
(* string or empty                                                      *)
VoiceGiven(voice) == voice.kind = "string" /\ voice.v # ""

(* What handleSpeak owes a request, for a given measure of the text's   *)
(* length: a request with no usable text, too long a text or an unknown *)
(* voice gets an error result and leaves ledger, queue, records and     *)
(* counters as they are; any other request creates exactly one record,  *)
(* with the text and the voice given, alloy when none is.               *)
SpeakCallOK(Length(_)) ==
    \A c \in Callers :
       (speak[c].pc = "idle" /\ speak'[c] # speak[c]) =>
          LET text == speak'[c].text
              voice == speak'[c].voice
              bad == \/ text.kind # "string"
                     \/ Length(text) = 0
                     \/ Length(text) > MaxTextLen
                     \/ VoiceGiven(voice) /\ voice.v \notin ValidVoices
          IN  IF bad
                THEN /\ speak'[c].pc = "idle"
                     /\ speak'[c].result \in
                          {TextRequiredMsg, TextTooLongMsg, InvalidVoiceMsg}
                     /\ UNCHANGED <<heap, jobHistory, jobs, processed,
                                    failed, appended, attempts>>
                ELSE /\ speak'[c].pc = "inSubmit"
                     /\ Len(heap') = Len(heap) + 1
                     /\ sjob'[c] = Len(heap')
                     /\ heap'[Len(heap')].Text = text
                     /\ heap'[Len(heap')].Voice =
                          IF VoiceGiven(voice) THEN voice.v ELSE DefaultVoice
                     /\ heap'[Len(heap')].Status = "pending"

(* the handler's return after Submit: the record was created once, is   *)
(* in the ledger once and, unless rejected, in the queue once           *)
SpeakReturnOK ==
    \A c \in Callers :
       (speak[c].pc = "inSubmit" /\ speak'[c] # speak[c]) =>
          /\ heap' = heap
          /\ Cardinality({i \in 1..Len(appended) :
                             appended[i] = sjob[c]}) = 1
          /\ speak'[c].result =
               IF Rejected(sjob[c]) THEN QueueFailedMsg ELSE QueuedMsg
          /\ ~Rejected(sjob[c]) =>
               Cardinality({i \in 1..Len(jobs) : jobs[i] = sjob[c]}) = 1

(* the number of characters of a text *)
CharLen(text) == text.runes

(* C26: the speak handler rejects, with no job submitted, a missing,    *)
(* non-string or empty text, a text of more than 4096 characters and an *)
(* unknown voice; a text of 1 to 4096 characters with a valid or absent *)
(* voice is submitted as exactly one job, with voice alloy by default.  *)
C26_SpeakValidation ==
    /\ [][SpeakCallOK(CharLen) /\ SpeakReturnOK]_vars
    /\ [](Len(appended) <= Len(heap))

(* what the code gives: the same contract with the limit in bytes *)
SpeakValidationInBytes ==
    /\ [][SpeakCallOK(ByteLen) /\ SpeakReturnOK]_vars
    /\ [](Len(appended) <= Len(heap))
(* C27: once shutdown is raised, a worker that is between jobs takes no *)
(* further job from the queue: its next step is to exit.                *)
C27_NoNewJobAfterShutdown ==
    [][\A w \in Workers :
         (shutdown /\ wpc[w] = "select" /\ wpc'[w] # wpc[w])
            => wpc'[w] = "exited"]_vars

(* job p has reached a final status *)
Terminal(p) == heap[p].Status \in {"completed", "failed"}

(* C28: on a started pool on which Stop is never called, every accepted *)
(* job eventually is completed or failed, and the queue eventually is   *)
(* empty.                                                               *)
C28_AcceptedJobsFinish ==
    [](stpc = "idle") =>
       /\ \A p \in 1..MaxJobs :
            (started /\ p \in Accepted) ~> (p \in Jobs /\ Terminal(p))
       /\ (started /\ jobs # << >>) ~> (jobs = << >>)

C28_Witness ==
    /\ started
    /\ stpc = "idle"
    /\ jobs = << >>
    /\ Cardinality(Accepted) = MaxJobs
    /\ \A p \in Accepted : Terminal(p)
    /\ \E p \in Accepted : heap[p].Status = "completed"

(* the worker loops that have been launched and have not returned *)
RunningWorkers == {w \in Workers : wpc[w] \notin {"unstarted", "exited"}}

(* C29: Start launches exactly workerCount worker loops, so at most     *)
(* workerCount jobs are in status processing and at most workerCount    *)
(* synthesis calls are in progress at any time.                         *)
C29_AtMostWorkerCountInFlight ==
    /\ ~started => RunningWorkers = {}
    /\ started =>
         /\ {w \in Workers : wpc[w] # "unstarted"} = 1..workerCount
         /\ Cardinality(RunningWorkers) = wg
    /\ Cardinality(RunningWorkers) <= workerCount
    /\ Cardinality({p \in Jobs : heap[p].Status = "processing"}) <= workerCount
    /\ Cardinality({w \in Workers : wpc[w] = "synthesize"}) <= workerCount
    /\ Cardinality({w \in Workers : InProcessJob(w)}) <= workerCount

C29_Witness ==
    /\ workerCount = 1
    /\ wpc[1] = "synthesize"
    /\ heap[wjob[1]].Status = "processing"
    /\ jobs # << >>
    /\ \A p \in Range(jobs) : heap[p].Status = "pending"

(* the jobs taken from the queue so far *)
Dequeued == {p \in Jobs : procCount[p] > 0}

(* C30: processedCount and failedCount never decrease and change only  *)
(* by +1, in a step of processJob; their sum is at most the number of   *)
(* jobs dequeued so far, and equal to it when no worker is inside       *)
(* processJob.                                                          *)
C30_CountersFollowDequeues ==
    /\ [](processed + failed <= Cardinality(Dequeued))
    /\ []((\A w \in Workers : ~InProcessJob(w))
            => processed + failed = Cardinality(Dequeued))
    /\ [](processed >= 0 /\ failed >= 0)
    /\ [][/\ processed' \in {processed, processed + 1}
          /\ failed' \in {failed, failed + 1}
          /\ processed' + failed' <= processed + failed + 1
          /\ processed' # processed =>
               \E w \in Workers : wpc[w] = "doneCount" /\ wpc'[w] = "select"
          /\ failed' # failed =>
               \E w \in Workers : wpc[w] = "failCount" /\ wpc'[w] = "select"
       ]_vars

C30_Witness ==
    /\ processed = 1
    /\ failed = 1
    /\ Cardinality(Dequeued) = 2
    /\ \A w \in Workers : ~InProcessJob(w)

(* the entries of the last returned snapshot, as its holder reads them *)
SnapshotJobs == [i \in 1..Len(status.RecentJobs) |-> Deref(status.RecentJobs[i])]

(* the number of entries of the last snapshot that have status s *)
SnapshotCount(s) ==
    Cardinality({i \in 1..Len(status.RecentJobs) : SnapshotJobs[i].Status = s})

(* C31: a snapshot shows the pool at one instant: with no more than     *)
(* ten jobs submitted, its totalProcessed is at most the number of its  *)
(* entries with status completed and its totalFailed at most the number *)
(* of its entries with status failed.                                   *)
C31_SnapshotAtOneInstant ==
    (status.Valid /\ Len(heap) <= RecentLimit) =>
       /\ status.TotalProcessed <= SnapshotCount("completed")
       /\ status.TotalFailed <= SnapshotCount("failed")

(* C32: an entry of a snapshot with status failed has a non-empty error *)
(* message, whether a worker or Submit's queue-full branch failed it.   *)
C32_FailedEntryHasError ==
    status.Valid =>
       \A i \in 1..Len(status.RecentJobs) :
          SnapshotJobs[i].Status = "failed" => SnapshotJobs[i].Error # ""

(* C33: once Submit has created a record, its id, text, voice and       *)
(* createdAt never change, and no record disappears.                    *)
C33_RecordIdentityImmutable ==
    [][/\ Len(heap') >= Len(heap)
       /\ \A p \in Jobs :
            /\ heap'[p].ID = heap[p].ID
            /\ heap'[p].Text = heap[p].Text
            /\ heap'[p].Voice = heap[p].Voice
            /\ heap'[p].CreatedAt = heap[p].CreatedAt]_vars

C33_Witness ==
    /\ stpc = "returned"
    /\ status.Valid
    /\ \E p \in Jobs :
         /\ heap[p].Status = "completed"
         /\ heap[p].ID = JobID(1)
         /\ heap[p].Text = "Test"
         /\ heap[p].Voice = "alloy"
         /\ heap[p].CreatedAt = 2

(* record p has been dropped from the ledger by the 100-entry cap *)
Evicted(p) == p \in Range(appended) /\ p \notin Range(jobHistory)

(* C34: eviction from the ledger drops a reference only.  The step that *)
(* evicts a record changes no record, the queue, no worker and no       *)
(* counter; every accepted job, evicted or not, is either still queued  *)
(* and pending or has been dequeued exactly once, and the counters      *)
(* count the evicted jobs like the others.                              *)
C34_EvictionDropsReferenceOnly ==
    /\ [][(\E p \in Jobs : p \in Range(jobHistory) /\ p \notin Range(jobHistory'))
            => UNCHANGED <<heap, jobs, workerVars, processed, failed,
                           procCount>>]_vars
    /\ [](\A p \in Accepted :
            \/ /\ p \in Range(jobs)
               /\ procCount[p] = 0
               /\ heap[p].Status = "pending"
            \/ /\ p \notin Range(jobs)
               /\ procCount[p] = 1)
    /\ [](\A w \in Workers :
            (wpc[w] = "select" /\ jobs # << >>) =>
               ENABLED (WorkerReceive(w) /\ wjob'[w] = Head(jobs)))
    /\ [](processed = Cardinality({p \in Jobs :
                        Settled(p) /\ heap[p].Status = "completed"}))
    /\ [](failed = Cardinality({p \in Jobs :
                     Settled(p) /\ procCount[p] = 1
                                /\ heap[p].Status = "failed"}))

(* the evicted job has been processed and counted, and the worker goes  *)
(* on with the next job                                                 *)
C34_Witness ==
    /\ Evicted(1)
    /\ heap[1].Status = "completed"
    /\ processed = 1
    /\ \E w \in Workers :
         /\ InProcessJob(w)
         /\ wjob[w] # 1

(* C35: no record is passed to processJob twice or by two workers, and  *)
(* a record rejected with queue-full is never passed to it.             *)
C35_NoDoubleDequeue ==
    /\ [](\A p \in Jobs : procCount[p] <= 1)
    /\ [](\A p \in Jobs :
            (Rejected(p) \/ \E c \in Callers :
                 sjob[c] = p /\ spc[c] \in {"rejectStatus", "rejectError"})
               => /\ procCount[p] = 0
                  /\ p \notin Range(jobs)
                  /\ \A w \in Workers : wjob[w] # p)
    /\ [][\A w \in Workers :
            (wjob'[w] # wjob[w] /\ wjob'[w] # 0) =>
               /\ wjob'[w] = Head(jobs)
               /\ procCount[wjob'[w]] = 0
               /\ procCount'[wjob'[w]] = 1
               /\ wjob'[w] \notin Range(jobs')
               /\ \A v \in Workers : v # w => wjob'[v] # wjob'[w]]_vars

C35_Witness ==
    /\ workerCount = 2
    /\ wjob[1] # 0
    /\ wjob[2] # 0
    /\ wjob[1] # wjob[2]
    /\ procCount[wjob[1]] = 1
    /\ procCount[wjob[2]] = 1

(* C36: Submit never sends on the queue once Stop has closed it, and so *)
(* never faults: a Submit that runs with or after Stop returns accepted *)
(* or rejected.                                                         *)
C36_NoSendOnClosedQueue ==
    /\ [][\A c \in Callers :
            (spc[c] = "send" /\ spc'[c] # spc[c]) => ~jobsClosed]_vars
    /\ [](\A c \in Callers : jobsClosed => spc[c] # "panicked")

(* a Play call holds p.mu and its playback (or its preparation) is      *)
(* running: it needs nothing to return                                  *)
PlaybackRunning ==
    /\ mu \in Workers
    /\ InPlay(mu)
    /\ ENABLED (PlayPrepare(mu) \/ PlayRun(mu))

(* C37: no deadlock among Submit callers, GetStatus callers and         *)
(* workers: whoever is inside an operation can take a step, or waits    *)
(* for the ledger lock whose holder can take a step, or waits for the   *)
(* playback lock while the holder's playback is running.                *)
C37_NoLockCycle ==
    /\ \A c \in Callers : InSubmit(c) => SubmitCanProceed(c)
    /\ gpc \in {"copy", "queuePending", "totalProcessed", "totalFailed"}
         => ENABLED GetStatusStep
    /\ gpc = "isPlaying" => (ENABLED GetStatusIsPlaying \/ PlaybackRunning)
    /\ \A w \in Workers :
         /\ wpc[w] = "playLock" => (ENABLED PlayLock(w) \/ PlaybackRunning)
         /\ (InProcessJob(w) /\ wpc[w] # "playLock") => ENABLED WorkerStep(w)
    /\ historyMu.w # 0 => spc[historyMu.w] = "append"
    /\ historyMu.r > 0 => gpc = "copy"
    /\ mu # 0 => (mu \in Workers /\ InPlay(mu))

C37_Witness ==
    /\ gpc = "isPlaying"
    /\ ~ENABLED GetStatusIsPlaying
    /\ \E w \in Workers : wpc[w] = "playLock" /\ ~ENABLED PlayLock(w)
    /\ PlaybackRunning

(* the accepted jobs in the order of their sends on the queue *)
EnqueueOrder == SelectSeq(attempts, LAMBDA p : results[p] = "nil")

(* C38: with one worker the accepted jobs are dequeued, played and      *)
(* brought to a final status in the order of their enqueueing: the      *)
(* dequeued jobs are a prefix of that order, the queue holds the rest   *)
(* in order, and all dequeued jobs but the last are final.              *)
C38_SingleWorkerFIFO ==
    workerCount = 1 =>
       LET eo == EnqueueOrder
           k == Cardinality(Dequeued)
       IN  /\ k <= Len(eo)
           /\ Dequeued = {eo[i] : i \in 1..k}
           /\ jobs = SubSeq(eo, k + 1, Len(eo))
           /\ \A i \in 1..(k - 1) : Terminal(eo[i]) /\ Settled(eo[i])
           /\ \A w \in Workers : wjob[w] # 0 => wjob[w] = eo[k]
           /\ \A i \in (k + 1)..Len(eo) : heap[eo[i]].Status = "pending"

C38_Witness ==
    /\ workerCount = 1
    /\ Len(EnqueueOrder) = 2
    /\ Terminal(EnqueueOrder[1])
    /\ wjob[1] = EnqueueOrder[2]
    /\ wpc[1] = "playRun"

(* the place of p in the sequence s that holds it *)
PosIn(s, p) == CHOOSE i \in 1..Len(s) : s[i] = p

(* A comes before B in the sequence s, which holds both *)
Before(s, A, B) == PosIn(s, A) < PosIn(s, B)

(* the ledger order of the accepted jobs, evictions apart *)
LedgerOrder == SelectSeq(appended, LAMBDA p : results[p] = "nil")

(* C39: ledger order and queue order agree for accepted jobs, also      *)
(* under concurrent Submit calls: a record appended before another is   *)
(* enqueued before it.                                                  *)
C39_LedgerOrderIsQueueOrder ==
    \A A, B \in Accepted :
       (A # B /\ Before(LedgerOrder, A, B)) => Before(EnqueueOrder, A, B)

(* Stop has returned *)
Stopped == stpc = "returned"

(* the step is Submit's queue-full branch writing the status of p *)
RejectionWrite(p) ==
    \E c \in Callers : spc[c] = "rejectStatus" /\ sjob[c] = p

(* C40: after Stop has returned no record's status and no counter       *)
(* changes again; the jobs still queued stay pending and uncounted.     *)
C40_NothingChangesAfterStop ==
    /\ [][Stopped =>
            /\ processed' = processed
            /\ failed' = failed
            /\ \A p \in Jobs : heap'[p].Status = heap[p].Status
       ]_vars
    /\ [](Stopped =>
            \A p \in Range(jobs) :
               heap[p].Status = "pending" /\ procCount[p] = 0)

(* C40 amended: after Stop has returned no worker runs, so the counters *)
(* and the queue are frozen, no record is taken for processing, and the *)
(* queued jobs stay pending and uncounted.  The one status that can     *)
(* still change is that of a record whose Submit call found the queue   *)
(* full and had not yet written "failed"; that record is not queued.    *)
C40_OnlyRejectionAfterStop ==
    /\ [][Stopped =>
            /\ processed' = processed
            /\ failed' = failed
            /\ jobs' = jobs
            /\ \A p \in Jobs :
                  /\ procCount'[p] = procCount[p]
                  /\ heap'[p].Status # heap[p].Status =>
                       /\ RejectionWrite(p)
                       /\ heap'[p].Status = "failed"
                       /\ p \notin Range(jobs)
                       /\ procCount[p] = 0
       ]_vars
    /\ [](Stopped =>
            /\ RunningWorkers = {}
            /\ \A p \in Range(jobs) :
                  heap[p].Status = "pending" /\ procCount[p] = 0)

C40_Witness ==
    /\ Stopped
    /\ started
    /\ jobs # <<>>
    /\ \E p \in Jobs : Terminal(p) /\ procCount[p] = 1
    /\ \E p \in Range(jobs) : heap[p].Status = "pending"

====
